---- MODULE Spec2Model ----
(***************************************************************************)
(* devcampers-api: the bootcamp and course controllers, the bootcamp       *)
(* routes and the error-handling middleware, as a state machine.           *)
(*                                                                         *)
(* A request occupies a slot of `reqs` from the moment its handler starts  *)
(* until its response has been written.  Every action is one run of a      *)
(* handler between two awaits: the storage call that the await waits for   *)
(* takes effect at the start of the action that resumes the handler.       *)
(* A JavaScript object is a function from its property names; an absent    *)
(* (undefined) property is a name outside its DOMAIN.                      *)
(***************************************************************************)
EXTENDS Integers, Sequences, FiniteSets, TLC

VARIABLES
    bootcamps,      \* Bootcamp collection: _id -> [user, name, photo]
    nextId,         \* number of bootcamp _ids handed out so far
    courses,        \* Course collection: _id -> [bootcamp]
    nextCourseId,   \* number of course _ids handed out so far
    files,          \* names of the files under FILE_UPLOAD_PATH
    removing,       \* _ids of bootcamps whose remove() was issued and not awaited
    alive,          \* FALSE once the unhandledRejection handler has exited the process
    reqs            \* request slot -> the request running in it

vars == <<bootcamps, nextId, courses, nextCourseId, files, removing, alive, reqs>>

-----------------------------------------------------------------------------
(* Bounds of the model *)

MaxInFlight == 2    \* requests in flight at the same time
MaxBootcamps == 2   \* bootcamp _ids the storage layer hands out
MaxCourses == 1     \* course _ids the storage layer hands out

(* Program constants *)

DUPLICATE_KEY == 11000
MAX_FILE_UPLOAD == 1000000

Slots == 1..MaxInFlight
BootcampIds == 1..MaxBootcamps
CourseIds == 1..MaxCourses

\* Principals that pass protect and authorize('publisher', 'admin')
Users == {"pubA", "pubB", "admin"}

Role(u) == IF u = "admin" THEN "admin" ELSE "publisher"

Names == {"n1", "n2"}

Has(o, f) == f \in DOMAIN o

\* The empty object {}
EmptyObj == <<>>

-----------------------------------------------------------------------------
(* utils/errorResponse and middleware/error.js *)

ErrorResponse(message, statusCode) ==
    [message |-> message, statusCode |-> statusCode]

\* new errorResponse(message): the status was passed to next(), not to the constructor
ErrorResponse1(message) == [message |-> message]

\* Array.prototype.toString of an array of strings
RECURSIVE Join(_)
Join(seq) ==
    IF seq = <<>> THEN ""
    ELSE IF Len(seq) = 1 THEN seq[1]
    ELSE seq[1] \o "," \o Join(Tail(seq))

IsCastError(err) == Has(err, "name") /\ err.name = "CastError"

IsDuplicateKey(err) == Has(err, "code") /\ err.code = DUPLICATE_KEY

IsValidationError(err) == Has(err, "name") /\ err.name = "ValidationError"

\* Object.values(err.errors) throws a TypeError when err.errors is undefined
ValidationThrows(err) == IsValidationError(err) /\ ~Has(err, "errors")

DuplicateStatus == 404

\* the value of `error` when res.status is reached
Normalize(err) ==
    LET e0 == err
        e1 == IF IsCastError(err) THEN ErrorResponse("Resource not found", 404) ELSE e0
        e2 == IF IsDuplicateKey(err)
              THEN ErrorResponse("Duplicate field value entered", DuplicateStatus)
              ELSE e1
    IN  IF IsValidationError(err) THEN ErrorResponse(Join(err.errors), 400) ELSE e2

\* error.statusCode || 500
StatusOf(error) ==
    IF Has(error, "statusCode") /\ error.statusCode # 0 THEN error.statusCode ELSE 500

\* error.message || 'Server Error'
MessageOf(error) ==
    IF Has(error, "message") /\ error.message # "" THEN error.message ELSE "Server Error"

\* The response errorHandler writes, or the fact that it threw
errorHandler(err) ==
    IF ValidationThrows(err)
    THEN [threw |-> TRUE]
    ELSE [threw  |-> FALSE,
          status |-> StatusOf(Normalize(err)),
          body   |-> [success |-> FALSE, error |-> MessageOf(Normalize(err))]]

\* res.status(s).json(b)
Json(s, b) == [threw |-> FALSE, status |-> s, body |-> b]

\* the property f, absent or with a value of S
Opt(f, S) == {EmptyObj} \cup {f :> v : v \in S}

\* errors a middleware may hand to next()
ErrValues ==
    {n @@ c @@ e @@ s @@ m :
        n \in Opt("name", {"CastError", "ValidationError", "MongoError"}),
        c \in Opt("code", {DUPLICATE_KEY, DUPLICATE_KEY + 1}),
        e \in Opt("errors", {<<>>, <<"Please add a name">>,
                             <<"Please add a name", "Please add a description">>}),
        s \in Opt("statusCode", {0, 400, 401}),
        m \in Opt("message", {"", "boom"})}

-----------------------------------------------------------------------------
(* Request slots *)

Idle == [pc |-> "idle"]

IsIdle(r) == alive /\ reqs[r].pc = "idle"

At(r, op, pc) == alive /\ reqs[r].pc = pc /\ reqs[r].op = op

\* the handler of request q in slot r ends with response res; req.body is
\* of no use after it
Respond(r, q, res) ==
    reqs' = [reqs EXCEPT ![r] = [q EXCEPT !.pc = "done", !.res = res, !.body = EmptyObj]]

\* the handler of request q in slot r suspends at the await named pc
Await(r, q, pc) ==
    reqs' = [reqs EXCEPT ![r] = [q EXCEPT !.pc = pc]]

\* a request as it enters its handler
NewReq(op, user, id, body) ==
    [op |-> op, user |-> user, id |-> id, body |-> body, upload |-> EmptyObj,
     pc |-> "start", found |-> FALSE, owner |-> "", wrote |-> FALSE,
     err |-> EmptyObj, res |-> EmptyObj]

\* the client has read the response; the slot is free again
Finish(r) ==
    /\ alive
    /\ reqs[r].pc = "done"
    /\ reqs' = [reqs EXCEPT ![r] = Idle]
    /\ UNCHANGED <<bootcamps, nextId, courses, nextCourseId, files, removing, alive>>

-----------------------------------------------------------------------------
(* models/Bootcamp as the controllers use it *)

Stored(id) == id \in DOMAIN bootcamps

\* Bootcamp.findOne({ user: u }) finds a document
HasPublished(u) == \E id \in DOMAIN bootcamps : bootcamps[id].user = u

\* the collection without document id
Without(coll, id) == [i \in DOMAIN coll \ {id} |-> coll[i]]

\* document doc with the fields of body set
Merge(doc, body) == [f \in DOMAIN doc |-> IF Has(body, f) THEN body[f] ELSE doc[f]]

NotFoundMsg(id) == "Bootcamp not found with the id of " \o ToString(id)

\* The schema's faults on a write that sets the fields of body on document id
\* (id = 0 for a new document): a missing required name, a name another
\* document already has
WriteFault(id, doc) ==
    IF ~Has(doc, "name")
    THEN [name |-> "ValidationError", errors |-> <<"Please add a name">>,
          message |-> "Bootcamp validation failed"]
    ELSE IF \E i \in DOMAIN bootcamps : i # id /\ bootcamps[i].name = doc.name
    THEN [name |-> "MongoError", code |-> DUPLICATE_KEY,
          message |-> "E11000 duplicate key error"]
    ELSE EmptyObj

-----------------------------------------------------------------------------
(* next(err), and middleware/async: a rejected handler promise goes to next *)

next(r, q, err) == Respond(r, [q EXCEPT !.err = err], errorHandler(err))

\* app.use(errorHandler), reached with whatever error a middleware passed on
errorMiddleware(r) ==
    /\ alive
    /\ reqs[r].pc = "next"
    /\ next(r, reqs[r], reqs[r].err)
    /\ UNCHANGED <<bootcamps, nextId, courses, nextCourseId, files, removing, alive>>

asyncHandler(r, q, err) == next(r, q, err)

DbUnchanged == UNCHANGED <<bootcamps, nextId, courses, nextCourseId, files, removing, alive>>

-----------------------------------------------------------------------------
(* controllers/bootcamps.js *)

\* GET /api/v1/bootcamps/:id
getBootcampById(r) ==
    /\ IsIdle(r)
    /\ \E id \in BootcampIds :
        LET q == NewReq("getBootcampById", "", id, EmptyObj) IN
        IF ~Stored(id)
        THEN next(r, q, ErrorResponse(NotFoundMsg(id), 404))
        ELSE Respond(r, [q EXCEPT !.found = TRUE],
                     Json(200, [success |-> TRUE, data |-> id]))
    /\ DbUnchanged

CreateBodies == {EmptyObj} \cup {[name |-> n] : n \in Names}

\* publishedBootcamp && req.user.role !== 'admin'
AlreadyPublished(u) == HasPublished(u) /\ Role(u) # "admin"

\* POST /api/v1/bootcamps, up to the await of Bootcamp.create
createBootcamp_findOne(r) ==
    /\ IsIdle(r)
    /\ nextId + Cardinality({s \in Slots : reqs[s].pc = "create"}) < MaxBootcamps
    /\ \E u \in Users, b \in CreateBodies :
        LET q == NewReq("createBootcamp", u, 0, b @@ [user |-> u]) IN
        IF AlreadyPublished(u)
        THEN next(r, q, ErrorResponse("The user with ID " \o u
                                      \o " has already published a bootcamp", 400))
        ELSE Await(r, q, "create")
    /\ DbUnchanged

\* POST /api/v1/bootcamps, from Bootcamp.create on
createBootcamp_create(r) ==
    /\ At(r, "createBootcamp", "create")
    /\ LET q == reqs[r]
           id == nextId + 1
           fault == WriteFault(0, q.body)
       IN  IF fault # EmptyObj
           THEN /\ asyncHandler(r, q, fault)
                /\ UNCHANGED <<bootcamps, nextId>>
           ELSE /\ bootcamps' = bootcamps @@
                        (id :> [user |-> q.body.user, name |-> q.body.name,
                                photo |-> "no-photo.jpg"])
                /\ nextId' = id
                /\ Respond(r, [q EXCEPT !.id = id, !.wrote = TRUE],
                           Json(201, [sucess |-> TRUE, data |-> id]))
    /\ UNCHANGED <<courses, nextCourseId, files, removing, alive>>

UpdateBodies == {[name |-> n] : n \in Names} \cup {[user |-> u] : u \in Users}

\* the comparison of the ownership check the wrong way round
UpdateUnauthorizedInverted(owner, u) == owner = u /\ Role(u) # "admin"

\* bootcamp.user.toString() !== req.user.id && req.user.role !== 'admin'
UpdateUnauthorized(owner, u) == owner # u /\ Role(u) # "admin"

\* PUT /api/v1/bootcamps/:id, up to the await of findByIdAndUpdate
updateBootcamp_find(r) ==
    /\ IsIdle(r)
    /\ \E u \in Users, id \in BootcampIds, b \in UpdateBodies :
        LET q == NewReq("updateBootcamp", u, id, b) IN
        IF ~Stored(id)
        THEN next(r, q, ErrorResponse(NotFoundMsg(id), 404))
        ELSE LET q1 == [q EXCEPT !.found = TRUE, !.owner = bootcamps[id].user] IN
             IF UpdateUnauthorized(bootcamps[id].user, u)
             THEN next(r, q1, ErrorResponse("User " \o ToString(id)
                           \o " is not authorized to update this bootcamp", 401))
             ELSE Await(r, q1, "update")
    /\ DbUnchanged

\* PUT /api/v1/bootcamps/:id, from findByIdAndUpdate on
updateBootcamp_update(r) ==
    /\ At(r, "updateBootcamp", "update")
    /\ LET q == reqs[r]
           fault == IF Stored(q.id) THEN WriteFault(q.id, Merge(bootcamps[q.id], q.body))
                    ELSE EmptyObj
       IN  IF ~Stored(q.id)
           THEN /\ Respond(r, q, Json(200, [success |-> TRUE, data |-> 0]))
                /\ UNCHANGED bootcamps
           ELSE IF fault # EmptyObj
           THEN /\ asyncHandler(r, q, fault)
                /\ UNCHANGED bootcamps
           ELSE /\ bootcamps' = [bootcamps EXCEPT ![q.id] = Merge(@, q.body)]
                /\ Respond(r, [q EXCEPT !.wrote = TRUE],
                           Json(200, [success |-> TRUE, data |-> q.id]))
    /\ UNCHANGED <<nextId, courses, nextCourseId, files, removing, alive>>

\* bootcamp.user.toString() !== 'req.user.id' && req.user.role !== 'admin'
DeleteUnauthorized(owner, u) == owner # "req.user.id" /\ Role(u) # "admin"

\* DELETE /api/v1/bootcamps/:id: the whole handler; bootcamp.remove() is not awaited
deleteBootcamp(r) ==
    /\ IsIdle(r)
    /\ \E u \in Users, id \in BootcampIds :
        LET q == NewReq("deleteBootcamp", u, id, EmptyObj) IN
        IF ~Stored(id)
        THEN /\ next(r, q, ErrorResponse(NotFoundMsg(id), 404))
             /\ UNCHANGED removing
        ELSE LET q1 == [q EXCEPT !.found = TRUE, !.owner = bootcamps[id].user] IN
             IF DeleteUnauthorized(bootcamps[id].user, u)
             THEN /\ next(r, q1, ErrorResponse("User " \o ToString(id)
                           \o " is not authorized to delete this bootcamp", 401))
                  /\ UNCHANGED removing
             ELSE /\ removing' = removing \cup {id}
                  /\ Respond(r, [q1 EXCEPT !.wrote = TRUE],
                             Json(200, [success |-> TRUE, data |-> EmptyObj]))
    /\ UNCHANGED <<bootcamps, nextId, courses, nextCourseId, files, alive>>

\* the storage layer completes a remove() nobody awaits
removeDone(id) ==
    /\ alive
    /\ id \in removing
    /\ bootcamps' = Without(bootcamps, id)
    /\ removing' = removing \ {id}
    /\ UNCHANGED <<nextId, courses, nextCourseId, files, alive, reqs>>

\* a remove() nobody awaits rejects: process.on('unhandledRejection') closes
\* the server and exits
unhandledRejection(id) ==
    /\ alive
    /\ id \in removing
    /\ alive' = FALSE
    /\ UNCHANGED <<bootcamps, nextId, courses, nextCourseId, files, removing, reqs>>

-----------------------------------------------------------------------------
(* controllers/bootcamps.js: bootcampPhotoUpload *)

\* String.prototype.startsWith, on strings as sequences of characters
StartsWith(str, prefix) ==
    /\ Len(str) >= Len(prefix)
    /\ SubSeq(str, 1, Len(prefix)) = prefix

Image == <<"i", "m", "a", "g", "e">>

MimeTypes == {Image \o <<"/", "p", "n", "g">>, <<"t", "e", "x", "t">>}

Sizes == {MAX_FILE_UPLOAD, MAX_FILE_UPLOAD + 1}

\* req.files: undefined when the request carries no file; otherwise the uploaded
\* files by field name.  A file name is <<base, extension>>.
Uploads ==
    {EmptyObj}
    \cup {[other |-> [mimetype |-> Image, size |-> MAX_FILE_UPLOAD, name |-> <<"x", ".png">>]]}
    \cup {[file |-> [mimetype |-> m, size |-> z, name |-> <<"me", ".jpg">>]] :
            m \in MimeTypes, z \in Sizes}

\* path.parse(name).ext
Ext(name) == name[2]

\* `photo_${bootcamp._id}${path.parse(file.name).ext}`
PhotoName(id, name) == "photo_" \o ToString(id) \o Ext(name)

NoFiles(q) == q.upload = EmptyObj

\* the media type check without its negation
NotImageInverted(file) == StartsWith(file.mimetype, Image)

NotImage(file) == ~StartsWith(file.mimetype, Image)

TooBig(file) == file.size > MAX_FILE_UPLOAD

\* PUT /api/v1/bootcamps/:id/photo, up to the call of file.mv
bootcampPhotoUpload_validate(r) ==
    /\ IsIdle(r)
    /\ \E u \in Users, id \in BootcampIds, up \in Uploads :
        LET q == [NewReq("bootcampPhotoUpload", u, id, EmptyObj) EXCEPT !.upload = up] IN
        IF ~Stored(id)
        THEN next(r, q, ErrorResponse(NotFoundMsg(id), 404))
        ELSE LET q1 == [q EXCEPT !.found = TRUE, !.owner = bootcamps[id].user] IN
             IF NoFiles(q1)
             THEN next(r, q1, ErrorResponse("Please upload a file", 400))
             ELSE IF ~Has(up, "file")
             THEN asyncHandler(r, q1,
                      [message |-> "Cannot read property 'mimetype' of undefined"])
             ELSE IF NotImage(up.file)
             THEN next(r, q1, ErrorResponse("Please upload an image file.", 400))
             ELSE IF TooBig(up.file)
             THEN next(r, q1, ErrorResponse("Please upload an image less than "
                                            \o ToString(MAX_FILE_UPLOAD), 400))
             ELSE Await(r, q1, "mv")
    /\ DbUnchanged

\* file.mv completes: on an error the callback answers 500; otherwise the file
\* is on storage and the callback awaits findByIdAndUpdate
bootcampPhotoUpload_mv(r) ==
    /\ At(r, "bootcampPhotoUpload", "mv")
    /\ LET q == reqs[r] IN
        \/ /\ next(r, q, ErrorResponse("Problem with file upload", 500))
           /\ UNCHANGED files
        \/ /\ files' = files \cup {PhotoName(q.id, q.upload.file.name)}
           /\ Await(r, [q EXCEPT !.wrote = TRUE], "photo")
    /\ UNCHANGED <<bootcamps, nextId, courses, nextCourseId, removing, alive>>

\* Bootcamp.findByIdAndUpdate(req.params.id, { photo: file.name }) and the response
bootcampPhotoUpload_update(r) ==
    /\ At(r, "bootcampPhotoUpload", "photo")
    /\ LET q == reqs[r]
           fname == PhotoName(q.id, q.upload.file.name)
       IN  /\ bootcamps' = IF Stored(q.id)
                           THEN [bootcamps EXCEPT ![q.id].photo = fname]
                           ELSE bootcamps
           /\ Respond(r, q, Json(200, [sucess |-> TRUE, data |-> fname]))
    /\ UNCHANGED <<nextId, courses, nextCourseId, files, removing, alive>>

-----------------------------------------------------------------------------
(* controllers/courses.js *)

CourseStored(id) == id \in DOMAIN courses

\* GET /api/v1/bootcamps/:bootcampId/courses
getCourses(r) ==
    /\ IsIdle(r)
    /\ \E bid \in BootcampIds :
        LET found == {c \in DOMAIN courses : courses[c].bootcamp = bid} IN
        Respond(r, NewReq("getCourses", "", bid, EmptyObj),
                Json(200, [success |-> TRUE, count |-> Cardinality(found), data |-> found]))
    /\ DbUnchanged

\* GET /api/v1/courses/:id: populate is called on the result of findById
getCourse(r) ==
    /\ IsIdle(r)
    /\ \E id \in CourseIds :
        LET q == NewReq("getCourse", "", id, EmptyObj) IN
        IF ~CourseStored(id)
        THEN asyncHandler(r, q, [message |-> "Cannot read property 'populate' of null"])
        ELSE Respond(r, [q EXCEPT !.found = TRUE],
                     Json(200, [sucess |-> TRUE, data |-> id]))
    /\ DbUnchanged

\* POST /api/v1/bootcamps/:bootcampId/courses, up to the await of Course.create
addCourse_find(r) ==
    /\ IsIdle(r)
    /\ nextCourseId + Cardinality({s \in Slots : reqs[s].pc = "courseCreate"}) < MaxCourses
    /\ \E bid \in BootcampIds :
        LET q == NewReq("addCourse", "", bid, [bootcamp |-> bid, title |-> "t1"]) IN
        IF ~Stored(bid)
        THEN next(r, q, ErrorResponse1("No bootcamp with the id: " \o ToString(bid)))
        ELSE Await(r, [q EXCEPT !.found = TRUE], "courseCreate")
    /\ DbUnchanged

\* POST /api/v1/bootcamps/:bootcampId/courses, from Course.create on
addCourse_create(r) ==
    /\ At(r, "addCourse", "courseCreate")
    /\ LET q == reqs[r]
           id == nextCourseId + 1
       IN  /\ courses' = courses @@ (id :> q.body)
           /\ nextCourseId' = id
           /\ Respond(r, [q EXCEPT !.wrote = TRUE],
                      Json(200, [sucess |-> TRUE, data |-> id]))
    /\ UNCHANGED <<bootcamps, nextId, files, removing, alive>>

\* PUT /api/v1/courses/:id, up to the await of findByIdAndUpdate
updateCourse_find(r) ==
    /\ IsIdle(r)
    /\ \E id \in CourseIds :
        LET q == NewReq("updateCourse", "", id, [title |-> "t2"]) IN
        IF ~CourseStored(id)
        THEN next(r, q, ErrorResponse1("No course with the id: " \o ToString(id)))
        ELSE Await(r, [q EXCEPT !.found = TRUE], "courseUpdate")
    /\ DbUnchanged

\* PUT /api/v1/courses/:id, from findByIdAndUpdate on
updateCourse_update(r) ==
    /\ At(r, "updateCourse", "courseUpdate")
    /\ LET q == reqs[r] IN
        IF ~CourseStored(q.id)
        THEN /\ Respond(r, q, Json(200, [sucess |-> TRUE, data |-> 0]))
             /\ UNCHANGED courses
        ELSE /\ courses' = [courses EXCEPT ![q.id] = Merge(@, q.body)]
             /\ Respond(r, [q EXCEPT !.wrote = TRUE],
                        Json(200, [sucess |-> TRUE, data |-> q.id]))
    /\ UNCHANGED <<bootcamps, nextId, nextCourseId, files, removing, alive>>

\* DELETE /api/v1/courses/:id, up to the await of course.remove()
deleteCourse_find(r) ==
    /\ IsIdle(r)
    /\ \E id \in CourseIds :
        LET q == NewReq("deleteCourse", "", id, EmptyObj) IN
        IF ~CourseStored(id)
        THEN next(r, q, ErrorResponse1("Course not found with the id: " \o ToString(id)))
        ELSE Await(r, [q EXCEPT !.found = TRUE], "courseRemove")
    /\ DbUnchanged

\* DELETE /api/v1/courses/:id, from course.remove() on
deleteCourse_remove(r) ==
    /\ At(r, "deleteCourse", "courseRemove")
    /\ LET q == reqs[r] IN
        /\ courses' = Without(courses, q.id)
        /\ Respond(r, [q EXCEPT !.wrote = TRUE],
                   Json(200, [sucess |-> TRUE, data |-> q.id]))
    /\ UNCHANGED <<bootcamps, nextId, nextCourseId, files, removing, alive>>

-----------------------------------------------------------------------------
(* The server *)

\* the state after startup, nothing stored
Init ==
    /\ bootcamps = EmptyObj
    /\ nextId = 0
    /\ courses = EmptyObj
    /\ nextCourseId = 0
    /\ files = {}
    /\ removing = {}
    /\ alive = TRUE
    /\ reqs = [r \in Slots |-> Idle]

\* a state createBootcamp leads to: one bootcamp, published by u
InitPublished ==
    /\ \E u \in Users :
        bootcamps = (1 :> [user |-> u, name |-> "n1", photo |-> "no-photo.jpg"])
    /\ nextId = 1
    /\ courses = EmptyObj
    /\ nextCourseId = 0
    /\ files = {}
    /\ removing = {}
    /\ alive = TRUE
    /\ reqs = [r \in Slots |-> Idle]

\* the bootcamp routes /:id and /
Next ==
    \/ \E r \in Slots : getBootcampById(r)
    \/ \E r \in Slots : createBootcamp_findOne(r)
    \/ \E r \in Slots : createBootcamp_create(r)
    \/ \E r \in Slots : updateBootcamp_find(r)
    \/ \E r \in Slots : updateBootcamp_update(r)
    \/ \E r \in Slots : deleteBootcamp(r)
    \/ \E id \in BootcampIds : removeDone(id)
    \/ \E id \in BootcampIds : unhandledRejection(id)
    \/ \E r \in Slots : Finish(r)

Spec == Init /\ [][Next]_vars

\* PUT and DELETE /:id on a stored bootcamp
NextOwner ==
    \/ \E r \in Slots : updateBootcamp_find(r)
    \/ \E r \in Slots : updateBootcamp_update(r)
    \/ \E r \in Slots : deleteBootcamp(r)
    \/ \E id \in BootcampIds : removeDone(id)
    \/ \E id \in BootcampIds : unhandledRejection(id)
    \/ \E r \in Slots : Finish(r)

SpecOwner == InitPublished /\ [][NextOwner]_vars

\* the bootcamp route /:id/photo
NextPhoto ==
    \/ \E r \in Slots : bootcampPhotoUpload_validate(r)
    \/ \E r \in Slots : bootcampPhotoUpload_mv(r)
    \/ \E r \in Slots : bootcampPhotoUpload_update(r)
    \/ \E r \in Slots : Finish(r)

SpecPhoto == InitPublished /\ [][NextPhoto]_vars

\* the course routes
NextCourses ==
    \/ \E r \in Slots : getBootcampById(r)
    \/ \E r \in Slots : getCourses(r)
    \/ \E r \in Slots : getCourse(r)
    \/ \E r \in Slots : addCourse_find(r)
    \/ \E r \in Slots : addCourse_create(r)
    \/ \E r \in Slots : updateCourse_find(r)
    \/ \E r \in Slots : updateCourse_update(r)
    \/ \E r \in Slots : deleteCourse_find(r)
    \/ \E r \in Slots : deleteCourse_remove(r)
    \/ \E r \in Slots : Finish(r)

SpecCourses == InitPublished /\ [][NextCourses]_vars

\* an error arrives at the error-handling middleware
InitErr ==
    /\ bootcamps = EmptyObj
    /\ nextId = 0
    /\ courses = EmptyObj
    /\ nextCourseId = 0
    /\ files = {}
    /\ removing = {}
    /\ alive = TRUE
    /\ \E e \in ErrValues :
        reqs = [r \in Slots |->
                  IF r = 1
                  THEN [NewReq("error", "", 0, EmptyObj) EXCEPT !.pc = "next", !.err = e]
                  ELSE Idle]

NextErr == \E r \in Slots : errorMiddleware(r)

SpecErr == InitErr /\ [][NextErr]_vars

-----------------------------------------------------------------------------
(* Properties *)

Done(r) == reqs[r].pc = "done"

\* the request whose handler started in this step in slot r
Started(r, ops) ==
    /\ reqs[r].pc = "idle"
    /\ reqs'[r].pc # "idle"
    /\ reqs'[r].op \in ops

\* the status the client receives; when errorHandler throws, the framework's
\* own handler answers 500 with a body that is no envelope
StatusSent(q) == IF q.res.threw THEN 500 ELSE q.res.status

FailureEnvelope(q) ==
    /\ ~q.res.threw
    /\ DOMAIN q.res.body = {"success", "error"}
    /\ q.res.body.success = FALSE

SuccessEnvelope(q) ==
    /\ ~q.res.threw
    /\ {"success", "data"} \subseteq DOMAIN q.res.body
    /\ q.res.body.success = TRUE

Answered(q, status, message) ==
    /\ q.pc = "done"
    /\ FailureEnvelope(q)
    /\ q.res.status = status
    /\ q.res.body.error = message

OwnerGated == {"updateBootcamp", "deleteBootcamp"}

NotOwnerNorAdmin(q) == q.found /\ q.owner # q.user /\ Role(q.user) # "admin"

\* C1: an updateBootcamp or deleteBootcamp request on a stored bootcamp by a
\* principal who is neither its owning user nor an admin is answered 401 with
\* a Failure Envelope in the step that looked the bootcamp up, and that step
\* leaves the stored bootcamps, the pending removals and the files as they were.
C1_UnauthorizedNoMutation ==
    [][\A r \in Slots :
        LET q == reqs'[r] IN
        (/\ Started(r, OwnerGated)
         /\ Stored(q.id)
         /\ bootcamps[q.id].user # q.user
         /\ Role(q.user) # "admin")
        => (/\ q.pc = "done"
            /\ FailureEnvelope(q)
            /\ q.res.status = 401
            /\ ~q.wrote
            /\ bootcamps' = bootcamps
            /\ removing' = removing
            /\ files' = files)]_vars

\* C1 witness: an update and a delete by a publisher who does not own the
\* bootcamp have both been answered 401
C1_Witness ==
    /\ \E r \in Slots : Done(r) /\ reqs[r].op = "updateBootcamp"
                        /\ NotOwnerNorAdmin(reqs[r]) /\ reqs[r].res.status = 401
    /\ \E r \in Slots : Done(r) /\ reqs[r].op = "deleteBootcamp"
                        /\ NotOwnerNorAdmin(reqs[r]) /\ reqs[r].res.status = 401
    /\ \E id \in DOMAIN bootcamps : bootcamps[id].name = "n1"

\* C2: an updateBootcamp or deleteBootcamp request on a stored bootcamp by its
\* owning user is never answered 401, and the delete is answered 200 with
\* empty data.
C2_OwnerAdmitted ==
    \A r \in Slots :
        (Done(r) /\ reqs[r].op \in OwnerGated /\ reqs[r].found
                 /\ reqs[r].owner = reqs[r].user)
        => (/\ StatusSent(reqs[r]) # 401
            /\ reqs[r].op = "deleteBootcamp" =>
                 (/\ SuccessEnvelope(reqs[r])
                  /\ reqs[r].res.status = 200
                  /\ reqs[r].res.body.data = EmptyObj))

\* C3: a photo upload for a stored bootcamp by a publisher who is neither its
\* owning user nor an admin is rejected: it writes no file, does not set the
\* photo field and is not answered 200.
C3_PhotoOwnershipGated ==
    \A r \in Slots :
        (reqs[r].pc # "idle" /\ reqs[r].op = "bootcampPhotoUpload"
                             /\ NotOwnerNorAdmin(reqs[r]))
        => (/\ ~reqs[r].wrote
            /\ Done(r) => StatusSent(reqs[r]) # 200)

\* C4: every error with code 11000 is answered with the Failure Envelope
\* "Duplicate field value entered" and status 409, whatever else it carries.
C4_DuplicateIs409 ==
    \A r \in Slots :
        (Done(r) /\ Has(reqs[r].err, "code") /\ reqs[r].err.code = 11000)
        => Answered(reqs[r], 409, "Duplicate field value entered")

\* C5: every response body is a Success Envelope with success = true and data,
\* or a Failure Envelope with success = false and error.
C5_Envelope ==
    \A r \in Slots :
        Done(r) => (SuccessEnvelope(reqs[r]) \/ FailureEnvelope(reqs[r]))

ByIdOps ==
    {"getBootcampById", "updateBootcamp", "deleteBootcamp", "bootcampPhotoUpload",
     "getCourse", "addCourse", "updateCourse", "deleteCourse"}

\* C6: a by-id request whose identifier names no stored resource is answered
\* 404 with a Failure Envelope, and the controller mutates nothing.
C6_MissingIs404 ==
    \A r \in Slots :
        (Done(r) /\ reqs[r].op \in ByIdOps /\ ~reqs[r].found)
        => (/\ FailureEnvelope(reqs[r])
            /\ reqs[r].res.status = 404
            /\ ~reqs[r].wrote)

\* C7: the error handler never throws: for every error it writes one Failure
\* Envelope, with status 500 when the error sets none and "Server Error" when
\* the error has no message.
C7_NormalizerTotal ==
    \A r \in Slots :
        (Done(r) /\ reqs[r].op = "error")
        => (/\ FailureEnvelope(reqs[r])
            /\ (DOMAIN reqs[r].err = {}) =>
                 (reqs[r].res.status = 500 /\ reqs[r].res.body.error = "Server Error"))

C9_OneBootcampPerPublisher ==
    \A u \in Users :
        Role(u) # "admin" =>
            Cardinality({id \in DOMAIN bootcamps : bootcamps[id].user = u}) <= 1

\* C10: when deleteBootcamp has answered 200 the bootcamp is no longer stored.
C10_DeletedWhenAnswered ==
    \A r \in Slots :
        (Done(r) /\ reqs[r].op = "deleteBootcamp" /\ StatusSent(reqs[r]) = 200)
        => ~Stored(reqs[r].id)

====
